---- MODULE Spec2Model ----
(***************************************************************************)
(* The figma-to-psd pipeline: the Layer-Catalog Builder (json-helper.py)   *)
(* and the Composite Assembler with its export chain (figmapsd.py).        *)
(*                                                                         *)
(* Strings that the code inspects (file names, layer names, output paths)  *)
(* are sequences of character codes, so that lower(), endswith(),          *)
(* splitext(), replace() and sort() are computed as Python computes them.  *)
(***************************************************************************)
EXTENDS Integers, Sequences, FiniteSets, TLC

\* ------------------------------------------------------------------ bounds
MaxFiles  == 2
MaxLayers == 2

\* ----------------------------------------------------------------- strings
DotPng     == <<46, 112, 110, 103>>
DotPngUp   == <<46, 80, 78, 71>>
DotTxt     == <<46, 116, 120, 116>>
DotPsd     == <<46, 112, 115, 100>>
TempSuffix == <<95, 116, 101, 109, 112, 46, 112, 110, 103>>

f_a_png   == <<97>> \o DotPng
f_a_PNG   == <<97>> \o DotPngUp
f_A_png   == <<65>> \o DotPng
f_b_png   == <<98>> \o DotPng
f_b_txt   == <<98>> \o DotTxt

FileUniverse == {f_a_png, f_a_PNG, f_A_png, f_b_png, f_b_txt}

\* str.lower() on ASCII
Lower(s) == [i \in DOMAIN s |-> IF s[i] >= 65 /\ s[i] <= 90 THEN s[i] + 32 ELSE s[i]]

\* str.endswith(suf)
EndsWith(s, suf) ==
    /\ Len(s) >= Len(suf)
    /\ SubSeq(s, Len(s) - Len(suf) + 1, Len(s)) = suf

\* s[i:].startswith(old), 1-based
MatchAt(s, i, old) ==
    /\ i + Len(old) - 1 <= Len(s)
    /\ SubSeq(s, i, i + Len(old) - 1) = old

RECURSIVE ReplaceFrom(_, _, _, _)
ReplaceFrom(s, i, old, new) ==
    IF i > Len(s) THEN <<>>
    ELSE IF MatchAt(s, i, old) THEN new \o ReplaceFrom(s, i + Len(old), old, new)
    ELSE <<s[i]>> \o ReplaceFrom(s, i + 1, old, new)

\* str.replace(old, new): every non-overlapping occurrence, left to right
Replace(s, old, new) == ReplaceFrom(s, 1, old, new)

\* os.path.splitext(name)[0]: cut at the last dot, unless that dot is
\* preceded only by dots (a leading-dot name has no extension)
Splitext(name) ==
    LET dots == {i \in DOMAIN name : name[i] = 46}
    IN  IF dots = {} THEN name
        ELSE LET k == CHOOSE i \in dots : \A j \in dots : j <= i
             IN  IF \E j \in 1..(k - 1) : name[j] # 46
                 THEN SubSeq(name, 1, k - 1)
                 ELSE name

\* Python's str ordering (code points, shorter prefix first)
RECURSIVE StrLess(_, _)
StrLess(s, t) ==
    IF t = <<>> THEN FALSE
    ELSE IF s = <<>> THEN TRUE
    ELSE IF s[1] # t[1] THEN s[1] < t[1]
    ELSE StrLess(Tail(s), Tail(t))

\* list.sort() of a collection of distinct names
RECURSIVE SortNames(_)
SortNames(S) ==
    IF S = {} THEN <<>>
    ELSE LET m == CHOOSE f \in S : \A g \in S \ {f} : StrLess(f, g)
         IN  <<m>> \o SortNames(S \ {m})

\* ------------------------------------------------------------------ images
\* What a file in the layer directory holds.  "bad" is a file PIL cannot open.
ImageKinds == {"small", "big", "bad"}

\* argparse leaves an absent --canvas-width / --canvas-height at None
NoneArg == -1
OverrideValues == {<<NoneArg, NoneArg>>, <<1234, 987>>}

\* x, y and opacity (in percent) an operator has typed into the document
Edited == <<20, 5, 50>>

\* an alpha sample is one byte; opacity is kept in percent (100 = 1.0)
MaxAlpha == 255
Percent  == 100

VARIABLES
    caseSensitive,  \* the file system distinguishes letter case
    dirExists,      \* the layer directory exists
    images,         \* file name -> ImageKinds, the layer directory's content
    docFile,        \* the Layer Document file: [state, frame, layers]
    docIsOutput,    \* docFile is an unedited Builder output for this directory
    builderRun,     \* observation of the last Builder invocation
    outDir,         \* state of the directory the output path lies in
    pc,             \* where the Assembler invocation stands
    method,         \* --method
    output_path,    \* --output
    loaded_info,    \* layers_info as json.load returned it
    reads,          \* how often the document file was opened for reading
    idx,            \* position of the paint loop in layers_list
    composite,      \* the canvas: frame and the layers pasted so far
    layer_log,      \* per document layer: "added", "missing" or "error"
    cmd,            \* the layer arguments of the layered convert command
    fs,             \* output location: path -> what was written there
    trace,          \* the export steps attempted so far, with their outcome
    result,         \* what the Assembler function returned
    exit,           \* exit status of the Assembler process
    alphaSample,    \* one alpha sample of a layer image and what became of it
    firstRun        \* the canvas of an earlier Assembler invocation

bvars == <<caseSensitive, dirExists, images, docFile, docIsOutput, builderRun>>
avars == <<outDir, pc, method, output_path, loaded_info, reads, idx, composite,
           layer_log, cmd, fs, trace, result, exit>>
pvars == <<alphaSample, firstRun>>
vars  == <<bvars, avars, pvars>>

\* PIL's Image.open(path).size / .mode; opacity is kept in percent
ImageWidth(kind)  == IF kind = "small" THEN 100 ELSE 1000
ImageHeight(kind) == IF kind = "small" THEN 100 ELSE 800
ImageMode(kind)   == IF kind = "small" THEN "RGBA" ELSE "RGB"

\* os.path.exists(os.path.join(layers_dir, name))
PathExists(name) ==
    /\ dirExists
    /\ IF caseSensitive THEN name \in DOMAIN images
       ELSE \E f \in DOMAIN images : Lower(f) = Lower(name)

\* the directory entry a path opens
ResolveFile(name) ==
    IF name \in DOMAIN images THEN name
    ELSE CHOOSE f \in DOMAIN images : Lower(f) = Lower(name)

\* ------------------------------------------------------- json-helper.py
\* (mutation) the extension test is case-sensitive
scan_case_sensitive ==
    IF ~dirExists THEN <<>>
    ELSE SortNames({f \in DOMAIN images : EndsWith(f, DotPng)})

\* (mutation) files PIL cannot open are left out of the scan
scan_skip_unreadable ==
    IF ~dirExists THEN <<>>
    ELSE SortNames({f \in DOMAIN images :
                      EndsWith(Lower(f), DotPng) /\ images[f] # "bad"})

scan_layers_directory ==
    IF ~dirExists THEN <<>>
    ELSE SortNames({f \in DOMAIN images : EndsWith(Lower(f), DotPng)})

get_image_info(filename) ==
    LET kind == images[filename]
    IN  IF kind = "bad"
        THEN [width |-> 0, height |-> 0, mode |-> "RGB"]
        ELSE [width |-> ImageWidth(kind), height |-> ImageHeight(kind),
              mode |-> ImageMode(kind)]

Max(a, b) == IF a >= b THEN a ELSE b

RECURSIVE estimate_from(_, _, _, _)
estimate_from(layer_files, i, max_width, max_height) ==
    IF i > Len(layer_files) THEN <<max_width, max_height>>
    ELSE LET img_info == get_image_info(layer_files[i])
         IN  estimate_from(layer_files, i + 1,
                           Max(max_width, img_info.width),
                           Max(max_height, img_info.height))

\* (mutation) the frame is the largest image, without the 800 x 600 floor
estimate_canvas_size_nofloor(layer_files) == estimate_from(layer_files, 1, 0, 0)

estimate_canvas_size(layer_files) == estimate_from(layer_files, 1, 800, 600)

\* json.load of the document when updating; {} when absent, unreadable or
\* not requested
EmptyData == [hasFrame |-> FALSE, frame |-> <<0, 0>>, layers |-> <<>>]

LoadExisting(update_existing) ==
    IF update_existing /\ docFile.state = "valid"
    THEN [hasFrame |-> TRUE, frame |-> docFile.frame, layers |-> docFile.layers]
    ELSE EmptyData

\* (mutation) the matched descriptor is given fresh defaults
ExistingLayer_restacked(layers, name) ==
    [name |-> name, x |-> 0, y |-> 0, opacity |-> 100,
     image_width |-> 0, image_height |-> 0, image_mode |-> "RGB"]

\* existing_layers[name]: the dict keeps the last descriptor of each name
HasExisting(layers, name) == \E i \in DOMAIN layers : layers[i].name = name

ExistingLayer(layers, name) ==
    LET hits == {i \in DOMAIN layers : layers[i].name = name}
    IN  layers[CHOOSE i \in hits : \A j \in hits : j <= i]

NewLayerData(layer_name, y_offset) ==
    [name |-> layer_name, x |-> 0, y |-> y_offset, opacity |-> 100,
     image_width |-> 0, image_height |-> 0, image_mode |-> "RGB"]

WithImageInfo(layer_data, img_info) ==
    [layer_data EXCEPT !.image_width = img_info.width,
                       !.image_height = img_info.height,
                       !.image_mode = img_info.mode]

YAdvance(img_info) == Max(50, img_info.height \div 4)

\* (mutation) the offset advances after merged descriptors as well
RECURSIVE process_files_advancing(_, _, _, _, _)
process_files_advancing(layer_files, i, existing, y_offset, acc) ==
    IF i > Len(layer_files) THEN acc
    ELSE LET filename   == layer_files[i]
             layer_name == Splitext(filename)
             img_info   == get_image_info(filename)
             layer_data == IF HasExisting(existing, layer_name)
                           THEN ExistingLayer(existing, layer_name)
                           ELSE NewLayerData(layer_name, y_offset)
         IN  process_files_advancing(layer_files, i + 1, existing,
                y_offset + YAdvance(img_info),
                Append(acc, WithImageInfo(layer_data, img_info)))

\* the loop over layer_files of generate_layers_info
RECURSIVE process_files(_, _, _, _, _)
process_files(layer_files, i, existing, y_offset, acc) ==
    IF i > Len(layer_files) THEN acc
    ELSE LET filename   == layer_files[i]
             layer_name == Splitext(filename)
             img_info   == get_image_info(filename)
         IN  IF HasExisting(existing, layer_name)
             THEN process_files(layer_files, i + 1, existing, y_offset,
                    Append(acc, WithImageInfo(ExistingLayer(existing, layer_name), img_info)))
             ELSE process_files(layer_files, i + 1, existing,
                    y_offset + YAdvance(img_info),
                    Append(acc, WithImageInfo(NewLayerData(layer_name, y_offset), img_info)))

\* (mutation) the stored frame is grown to fit the images now present
FrameOf_grown(existing_data, layer_files) ==
    LET est == estimate_canvas_size(layer_files)
    IN  IF existing_data.hasFrame
        THEN <<Max(existing_data.frame[1], est[1]), Max(existing_data.frame[2], est[2])>>
        ELSE est

FrameOf(existing_data, layer_files) ==
    IF existing_data.hasFrame THEN existing_data.frame
    ELSE estimate_canvas_size(layer_files)

\* (mutation) descriptors of the existing document without a file are kept
layers_info_keep_all(update_existing) ==
    LET layer_files   == scan_layers_directory
        existing_data == LoadExisting(update_existing)
        Gone(layer)   == \A i \in DOMAIN layer_files :
                            Splitext(layer_files[i]) # layer.name
    IN  [state  |-> "valid",
         frame  |-> FrameOf(existing_data, layer_files),
         layers |-> process_files(layer_files, 1, existing_data.layers, 0, <<>>)
                    \o SelectSeq(existing_data.layers, Gone)]

\* the document generate_layers_info builds before saving it
layers_info(update_existing) ==
    LET layer_files   == scan_layers_directory
        existing_data == LoadExisting(update_existing)
    IN  [state  |-> "valid",
         frame  |-> FrameOf(existing_data, layer_files),
         layers |-> process_files(layer_files, 1, existing_data.layers, 0, <<>>)]

AbsentDoc  == [state |-> "absent",  frame |-> <<0, 0>>, layers |-> <<>>]
InvalidDoc == [state |-> "invalid", frame |-> <<0, 0>>, layers |-> <<>>]

NoRun == [ran |-> FALSE, update |-> FALSE, canvas_width |-> NoneArg,
          canvas_height |-> NoneArg, loaded |-> AbsentDoc, fromOutput |-> FALSE,
          writable |-> FALSE, opened |-> FALSE, success |-> FALSE, exit |-> 0]

\* (mutation) an empty scan is not an error: an empty catalog is written
BuilderMain_writes_empty(update, canvas_width, canvas_height, writable) ==
    LET layer_files == scan_layers_directory
        success     == writable
    IN  /\ docFile' = IF success THEN layers_info(update) ELSE docFile
        /\ docIsOutput' = IF success THEN TRUE ELSE docIsOutput
        /\ builderRun' = [ran |-> TRUE, update |-> update,
                          canvas_width |-> canvas_width,
                          canvas_height |-> canvas_height,
                          loaded |-> docFile, fromOutput |-> docIsOutput,
                          writable |-> writable,
                          opened |-> (layer_files # <<>> /\ update
                                      /\ docFile.state # "absent"),
                          success |-> success, exit |-> 0]
        /\ UNCHANGED <<caseSensitive, dirExists, images>>
        /\ UNCHANGED <<avars, pvars>>

\* json-helper.py main(): parse the flags, run generate_layers_info, preview.
\* writable = open(output_file, 'w') succeeds; opened = the existing document
\* was opened for reading.
BuilderMain(update, canvas_width, canvas_height, writable) ==
    LET layer_files == scan_layers_directory
        success     == layer_files # <<>> /\ writable
    IN  /\ docFile' = IF success THEN layers_info(update) ELSE docFile
        /\ docIsOutput' = IF success THEN TRUE ELSE docIsOutput
        /\ builderRun' = [ran |-> TRUE, update |-> update,
                          canvas_width |-> canvas_width,
                          canvas_height |-> canvas_height,
                          loaded |-> docFile, fromOutput |-> docIsOutput,
                          writable |-> writable,
                          opened |-> (layer_files # <<>> /\ update
                                      /\ docFile.state # "absent"),
                          success |-> success, exit |-> 0]
        /\ UNCHANGED <<caseSensitive, dirExists, images>>
        /\ UNCHANGED <<avars, pvars>>

\* ------------------------------------------------------------------ inputs
CaseOK(cs, S) == cs \/ \A f, g \in S : Lower(f) = Lower(g) => f = g

\* layer directories of at most MaxFiles entries; only .png content matters
InputDirs(cs, names, kinds) ==
    UNION {{im \in [S -> kinds] : \A f \in S : f = f_b_txt => im[f] = "small"} :
           S \in {T \in SUBSET names : Cardinality(T) <= MaxFiles /\ CaseOK(cs, T)}}

LayerSettings == {<<0, 0, 100>>, Edited}

Settings(layer) == <<layer.x, layer.y, layer.opacity>>

InputLayers(names) ==
    {[name |-> n, x |-> s[1], y |-> s[2], opacity |-> s[3],
      image_width |-> 100, image_height |-> 100, image_mode |-> "RGBA"] :
     n \in names, s \in LayerSettings}

\* documents an operator may have on disk: names unique, as the data model
\* requires of a hand-written document; the layers at the positions in
\* "edited" may carry edited settings
InputDocs(names, frames, edited) ==
    {AbsentDoc, InvalidDoc} \cup
    {[state |-> "valid", frame |-> fr, layers |-> ls] :
       fr \in frames,
       ls \in {l \in UNION {[1..n -> InputLayers(names)] : n \in 0..MaxLayers} :
                 /\ \A i, j \in DOMAIN l : l[i].name = l[j].name => i = j
                 /\ \A i \in DOMAIN l : i \in edited \/ Settings(l[i]) # Edited}}

\* ------------------------------------------------------------ figmapsd.py
o_psd     == <<111>> \o DotPsd
o_noext   == <<111>>
o_psd_psd == <<111>> \o DotPsd \o DotPsd

OutputPaths == {o_psd, o_noext, o_psd_psd}

NoCanvas == [frame |-> <<0, 0>>, painted |-> <<>>]

AsmIdle ==
    /\ pc = "idle"
    /\ method = "none"
    /\ output_path = <<>>
    /\ loaded_info = AbsentDoc
    /\ reads = 0
    /\ idx = 0
    /\ composite = NoCanvas
    /\ layer_log = <<>>
    /\ cmd = <<>>
    /\ fs = << >>
    /\ trace = <<>>
    /\ result = "none"
    /\ exit = -1

\* main(): the existence checks on --layers-dir and --layers-info, then the
\* dispatch on --method
MainStart(m, out) ==
    /\ pc = "idle"
    /\ method' = m
    /\ output_path' = out
    /\ IF ~dirExists \/ docFile.state = "absent"
       THEN pc' = "exited" /\ exit' = 0
       ELSE pc' = (IF m = "imagemagick" THEN "layered_load" ELSE "composite_load")
            /\ exit' = exit
    /\ UNCHANGED <<outDir, loaded_info, reads, idx, composite, layer_log, cmd,
                   fs, trace, result>>
    /\ UNCHANGED <<bvars, pvars>>

\* alpha.point(lambda p: int(p * opacity))
point_alpha(p, opacity) == (p * opacity) \div Percent

\* (mutation) the sample is divided by the opacity
apply_opacity_divided(p, opacity) ==
    IF opacity < Percent THEN (p * Percent) \div Max(opacity, 1) ELSE p

\* "if opacity < 1.0": the alpha a layer is pasted with
apply_opacity(p, opacity) ==
    IF opacity < Percent THEN point_alpha(p, opacity) ELSE p

\* alpha of a sample pixel of a layer image; an RGB image is opaque
SourceAlpha(kind) == IF ImageMode(kind) = "RGBA" THEN 200 ELSE MaxAlpha

\* the name a layer resolves to: "<name>.png", else "<name.lower()>.png"
LayerFile(layer_name) ==
    IF PathExists(layer_name \o DotPng) THEN layer_name \o DotPng
    ELSE Lower(layer_name) \o DotPng

LayerFound(layer_name) ==
    PathExists(layer_name \o DotPng) \/ PathExists(Lower(layer_name) \o DotPng)

\* create_composite_and_convert_to_psd: open and parse the document
CompositeLoad ==
    /\ pc = "composite_load"
    /\ reads' = reads + 1
    /\ IF docFile.state = "valid"
       THEN /\ loaded_info' = docFile
            /\ composite' = [frame |-> docFile.frame, painted |-> <<>>]
            /\ idx' = 1
            /\ layer_log' = <<>>
            /\ pc' = "paint"
            /\ result' = result
       ELSE /\ result' = "false"
            /\ pc' = "return"
            /\ UNCHANGED <<loaded_info, composite, idx, layer_log>>
    /\ UNCHANGED <<outDir, method, output_path, cmd, fs, trace, exit>>
    /\ UNCHANGED <<bvars, pvars>>

\* (mutation) a layer that is not found ends the function with failure
PaintLayer_abort ==
    /\ pc = "paint"
    /\ idx <= Len(loaded_info.layers)
    /\ LET layer_info == loaded_info.layers[idx]
           layer_name == layer_info.name
       IN  IF ~LayerFound(layer_name)
           THEN /\ layer_log' = Append(layer_log, "missing")
                /\ composite' = composite
                /\ result' = "false"
                /\ pc' = "return"
           ELSE LET layer_file == ResolveFile(LayerFile(layer_name))
                    kind       == images[layer_file]
                IN  /\ UNCHANGED <<result, pc>>
                    /\ IF kind = "bad"
                       THEN /\ layer_log' = Append(layer_log, "error")
                            /\ composite' = composite
                       ELSE /\ layer_log' = Append(layer_log, "added")
                            /\ composite' =
                                 [composite EXCEPT !.painted = Append(@,
                                    [file    |-> layer_file,
                                     x       |-> layer_info.x,
                                     y       |-> layer_info.y,
                                     opacity |-> layer_info.opacity,
                                     alpha   |-> apply_opacity(SourceAlpha(kind),
                                                               layer_info.opacity),
                                     mask    |-> (layer_info.opacity < 100
                                                  \/ ImageMode(kind) = "RGBA")])]
    /\ idx' = idx + 1
    /\ UNCHANGED <<outDir, method, output_path, loaded_info, reads, cmd, fs,
                   trace, exit>>
    /\ UNCHANGED <<bvars, pvars>>

\* (mutation) opening a readable layer image may fail at random
PaintLayer_flaky ==
    \E opened \in BOOLEAN :
    /\ pc = "paint"
    /\ idx <= Len(loaded_info.layers)
    /\ LET layer_info == loaded_info.layers[idx]
           layer_name == layer_info.name
       IN  IF ~LayerFound(layer_name)
           THEN /\ layer_log' = Append(layer_log, "missing")
                /\ composite' = composite
           ELSE LET layer_file == ResolveFile(LayerFile(layer_name))
                    kind       == images[layer_file]
                IN  IF kind = "bad" \/ ~opened
                    THEN /\ layer_log' = Append(layer_log, "error")
                         /\ composite' = composite
                    ELSE /\ layer_log' = Append(layer_log, "added")
                         /\ composite' =
                              [composite EXCEPT !.painted = Append(@,
                                 [file    |-> layer_file,
                                  x       |-> layer_info.x,
                                  y       |-> layer_info.y,
                                  opacity |-> layer_info.opacity,
                                  alpha   |-> apply_opacity(SourceAlpha(kind),
                                                            layer_info.opacity),
                                  mask    |-> (layer_info.opacity < 100
                                               \/ ImageMode(kind) = "RGBA")])]
    /\ idx' = idx + 1
    /\ UNCHANGED <<outDir, pc, method, output_path, loaded_info, reads, cmd, fs,
                   trace, result, exit>>
    /\ UNCHANGED <<bvars, pvars>>

\* one iteration of "for layer_info in layers_list"
PaintLayer ==
    /\ pc = "paint"
    /\ idx <= Len(loaded_info.layers)
    /\ LET layer_info == loaded_info.layers[idx]
           layer_name == layer_info.name
       IN  IF ~LayerFound(layer_name)
           THEN /\ layer_log' = Append(layer_log, "missing")
                /\ composite' = composite
           ELSE LET layer_file == ResolveFile(LayerFile(layer_name))
                    kind       == images[layer_file]
                IN  IF kind = "bad"
                    THEN /\ layer_log' = Append(layer_log, "error")
                         /\ composite' = composite
                    ELSE /\ layer_log' = Append(layer_log, "added")
                         /\ composite' =
                              [composite EXCEPT !.painted = Append(@,
                                 [file    |-> layer_file,
                                  x       |-> layer_info.x,
                                  y       |-> layer_info.y,
                                  opacity |-> layer_info.opacity,
                                  alpha   |-> apply_opacity(SourceAlpha(kind),
                                                            layer_info.opacity),
                                  mask    |-> (layer_info.opacity < 100
                                               \/ ImageMode(kind) = "RGBA")])]
    /\ idx' = idx + 1
    /\ UNCHANGED <<outDir, pc, method, output_path, loaded_info, reads, cmd, fs,
                   trace, result, exit>>
    /\ UNCHANGED <<bvars, pvars>>

\* the loop is over: return save_as_psd(composite, output_path)
CallSave ==
    /\ pc = "paint"
    /\ idx > Len(loaded_info.layers)
    /\ pc' = "probe"
    /\ UNCHANGED <<outDir, method, output_path, loaded_info, reads, idx,
                   composite, layer_log, cmd, fs, trace, result, exit>>
    /\ UNCHANGED <<bvars, pvars>>

Step(name, outcome) == [step |-> name, outcome |-> outcome]

temp_png   == Replace(output_path, DotPsd, TempSuffix)
png_output == Replace(output_path, DotPsd, DotPng)

WriteFile(path, format) == (path :> [format |-> format, image |-> composite]) @@ fs
RemovePath(path) == [q \in DOMAIN fs \ {path} |-> fs[q]]

\* (mutation) the version probe's status is not checked
NativeProbe_unchecked(ok) ==
    /\ pc = "probe"
    /\ trace' = Append(trace, Step("probe", IF ok THEN "ok" ELSE "unavailable"))
    /\ pc' = "temp"
    /\ UNCHANGED <<outDir, method, output_path, loaded_info, reads, idx,
                   composite, layer_log, cmd, fs, result, exit>>
    /\ UNCHANGED <<bvars, pvars>>

\* Method 1: subprocess.run(['convert', '-version'], check=True)
NativeProbe(ok) ==
    /\ pc = "probe"
    /\ trace' = Append(trace, Step("probe", IF ok THEN "ok" ELSE "unavailable"))
    /\ pc' = IF ok THEN "temp" ELSE "library"
    /\ UNCHANGED <<outDir, method, output_path, loaded_info, reads, idx,
                   composite, layer_log, cmd, fs, result, exit>>
    /\ UNCHANGED <<bvars, pvars>>

\* image.save(temp_png, 'PNG'): FileNotFoundError is caught by the except
\* clause of method 1, any other OSError leaves the process with a traceback
SaveTemp ==
    /\ pc = "temp"
    /\ trace' = Append(trace, Step("temp", IF outDir = "ok" THEN "ok" ELSE "failed"))
    /\ CASE outDir = "ok" ->
              /\ fs' = WriteFile(temp_png, "png")
              /\ pc' = "convert"
              /\ UNCHANGED <<result, exit>>
         [] outDir = "missing" ->
              /\ pc' = "library"
              /\ UNCHANGED <<fs, result, exit>>
         [] outDir = "readonly" ->
              /\ pc' = "exited"
              /\ result' = "raised"
              /\ exit' = 1
              /\ fs' = fs
    /\ UNCHANGED <<outDir, method, output_path, loaded_info, reads, idx,
                   composite, layer_log, cmd>>
    /\ UNCHANGED <<bvars, pvars>>

\* subprocess.run(['convert', temp_png, output_path], check=True)
NativeConvert(ok) ==
    /\ pc = "convert"
    /\ trace' = Append(trace, Step("convert", IF ok THEN "ok" ELSE "failed"))
    /\ IF ok
       THEN /\ fs' = (output_path :> [format |-> "psd", image |-> fs[temp_png].image]) @@ fs
            /\ pc' = "cleanup"
       ELSE /\ fs' = fs
            /\ pc' = "library"
    /\ UNCHANGED <<outDir, method, output_path, loaded_info, reads, idx,
                   composite, layer_log, cmd, result, exit>>
    /\ UNCHANGED <<bvars, pvars>>

\* if os.path.exists(temp_png): os.remove(temp_png); return True
Cleanup ==
    /\ pc = "cleanup"
    /\ fs' = IF temp_png \in DOMAIN fs THEN RemovePath(temp_png) ELSE fs
    /\ result' = "true"
    /\ pc' = "return"
    /\ UNCHANGED <<outDir, method, output_path, loaded_info, reads, idx,
                   composite, layer_log, cmd, trace, exit>>
    /\ UNCHANGED <<bvars, pvars>>

\* Method 2: import psd_tools, flatten onto white, PSDImage.new(...).
\* "ok": the imports and calls succeed (the PSDImage is never saved);
\* "unavailable": ImportError; "failed": any other exception
LibraryStep(outcome) ==
    /\ pc = "library"
    /\ trace' = Append(trace, Step("library", outcome))
    /\ IF outcome = "ok"
       THEN result' = "true" /\ pc' = "return"
       ELSE result' = result /\ pc' = "raster"
    /\ UNCHANGED <<outDir, method, output_path, loaded_info, reads, idx,
                   composite, layer_log, cmd, fs, exit>>
    /\ UNCHANGED <<bvars, pvars>>

\* Method 3: image.save(png_output, 'PNG'); return True
RasterFallback ==
    /\ pc = "raster"
    /\ trace' = Append(trace, Step("raster", IF outDir = "ok" THEN "ok" ELSE "failed"))
    /\ IF outDir = "ok"
       THEN /\ fs' = WriteFile(png_output, "png")
            /\ result' = "true"
            /\ pc' = "return"
            /\ exit' = exit
       ELSE /\ fs' = fs
            /\ result' = "raised"
            /\ pc' = "exited"
            /\ exit' = 1
    /\ UNCHANGED <<outDir, method, output_path, loaded_info, reads, idx,
                   composite, layer_log, cmd>>
    /\ UNCHANGED <<bvars, pvars>>

\* main() after the call: print the outcome and fall off the end
MainFinish ==
    /\ pc = "return"
    /\ pc' = "exited"
    /\ exit' = 0
    /\ UNCHANGED <<outDir, method, output_path, loaded_info, reads, idx,
                   composite, layer_log, cmd, fs, trace, result>>
    /\ UNCHANGED <<bvars, pvars>>

\* (mutation) a document that cannot be parsed is taken as an empty one
LayeredLoad_lenient ==
    /\ pc = "layered_load"
    /\ reads' = reads + 1
    /\ loaded_info' = IF docFile.state = "valid" THEN docFile
                      ELSE [state |-> "valid", frame |-> <<800, 600>>, layers |-> << >>]
    /\ pc' = "layered_probe"
    /\ UNCHANGED <<outDir, method, output_path, idx, composite, layer_log, cmd,
                   fs, trace, result, exit>>
    /\ UNCHANGED <<bvars, pvars>>

\* create_layered_psd_imagemagick: open and parse the document
LayeredLoad ==
    /\ pc = "layered_load"
    /\ reads' = reads + 1
    /\ IF docFile.state = "valid"
       THEN /\ loaded_info' = docFile
            /\ pc' = "layered_probe"
            /\ result' = result
       ELSE /\ result' = "false"
            /\ pc' = "return"
            /\ loaded_info' = loaded_info
    /\ UNCHANGED <<outDir, method, output_path, idx, composite, layer_log, cmd,
                   fs, trace, exit>>
    /\ UNCHANGED <<bvars, pvars>>

\* subprocess.run(['convert', '-version']); on failure fall back to
\* create_composite_and_convert_to_psd
LayeredProbe(ok) ==
    /\ pc = "layered_probe"
    /\ pc' = IF ok THEN "layered_cmd" ELSE "composite_load"
    /\ UNCHANGED <<outDir, method, output_path, loaded_info, reads, idx,
                   composite, layer_log, cmd, fs, trace, result, exit>>
    /\ UNCHANGED <<bvars, pvars>>

\* one argument of the convert command line
Arg(a) == [arg |-> a, file |-> << >>, x |-> 0, y |-> 0, value |-> 0]

\* cmd.append(layer_file); '-geometry' '+x+y'; the opacity arguments when
\* opacity < 100; '-composite'
layer_cmd(layer_info) ==
    LET layer_file == ResolveFile(LayerFile(layer_info.name))
        x          == layer_info.x
        y          == layer_info.y
        opacity    == layer_info.opacity
    IN  <<[Arg("file") EXCEPT !.file = layer_file]>>
        \o <<Arg("-geometry"), [Arg("+x+y") EXCEPT !.x = x, !.y = y]>>
        \o (IF opacity < 100
            THEN <<Arg("-alpha"), Arg("set"), Arg("-channel"), Arg("A"),
                   Arg("-evaluate"), Arg("multiply"),
                   [Arg("opacity/100") EXCEPT !.value = opacity]>>
            ELSE << >>)
        \o <<Arg("-composite")>>

\* (mutation) the layers are passed in document order
RECURSIVE layer_args_forward(_, _)
layer_args_forward(layers_list, i) ==
    IF i < 1 THEN << >>
    ELSE IF ~LayerFound(layers_list[i].name)
         THEN layer_args_forward(layers_list, i - 1)
         ELSE layer_args_forward(layers_list, i - 1) \o layer_cmd(layers_list[i])

\* "for layer_info in reversed(layers_list)": the arguments added per layer
RECURSIVE layer_args(_, _)
layer_args(layers_list, i) ==
    IF i < 1 THEN << >>
    ELSE LET layer_info == layers_list[i]
             layer_name == layer_info.name
         IN  IF ~LayerFound(layer_name) THEN layer_args(layers_list, i - 1)
             ELSE layer_cmd(layer_info) \o layer_args(layers_list, i - 1)

LayeredBuild ==
    /\ pc = "layered_cmd"
    /\ cmd' = layer_args(loaded_info.layers, Len(loaded_info.layers))
    /\ pc' = "layered_run"
    /\ UNCHANGED <<outDir, method, output_path, loaded_info, reads, idx,
                   composite, layer_log, fs, trace, result, exit>>
    /\ UNCHANGED <<bvars, pvars>>

\* subprocess.run(cmd, check=True); CalledProcessError falls back to
\* create_composite_and_convert_to_psd
LayeredRun(ok) ==
    /\ pc = "layered_run"
    /\ ok => outDir = "ok"
    /\ IF ok
       THEN /\ fs' = (output_path :> [format |-> "layered_psd",
                                      image  |-> [frame   |-> loaded_info.frame,
                                                  painted |-> cmd]]) @@ fs
            /\ result' = "true"
            /\ pc' = "return"
       ELSE /\ fs' = fs
            /\ result' = result
            /\ pc' = "composite_load"
    /\ UNCHANGED <<outDir, method, output_path, loaded_info, reads, idx,
                   composite, layer_log, cmd, trace, exit>>
    /\ UNCHANGED <<bvars, pvars>>

\* the opacity step of the paint loop applied to one alpha sample
NoSample == [source |-> 0, opacity |-> Percent, applied |-> FALSE, scaled |-> 0]

ScaleAlpha ==
    /\ ~alphaSample.applied
    /\ alphaSample' = [alphaSample EXCEPT
                         !.applied = TRUE,
                         !.scaled  = apply_opacity(alphaSample.source,
                                                   alphaSample.opacity)]
    /\ UNCHANGED <<bvars, avars, firstRun>>

\* the process has ended and figmapsd.py is started once more on the same
\* document and directory; what the first run left on disk stays there
NoFirst == [done |-> FALSE, flattened |-> FALSE, composite |-> NoCanvas]

RunAgain ==
    /\ pc = "exited"
    /\ ~firstRun.done
    /\ firstRun' = [done |-> TRUE, flattened |-> idx >= 1, composite |-> composite]
    /\ pc' = "idle"
    /\ method' = "none"
    /\ output_path' = << >>
    /\ loaded_info' = AbsentDoc
    /\ reads' = 0
    /\ idx' = 0
    /\ composite' = NoCanvas
    /\ layer_log' = << >>
    /\ cmd' = << >>
    /\ trace' = << >>
    /\ result' = "none"
    /\ exit' = -1
    /\ UNCHANGED <<outDir, fs, alphaSample>>
    /\ UNCHANGED bvars

\* --------------------------------------------------------- specifications
BuilderInit ==
    /\ caseSensitive \in BOOLEAN
    /\ dirExists \in BOOLEAN
    /\ images \in (IF dirExists THEN InputDirs(caseSensitive, FileUniverse, ImageKinds)
                   ELSE {<< >>})
    /\ docFile \in InputDocs({<<97>>, <<98>>}, {<<640, 480>>}, 1..MaxLayers)
    /\ docIsOutput = FALSE
    /\ builderRun = NoRun
    /\ outDir = "ok"
    /\ AsmIdle
    /\ alphaSample = NoSample
    /\ firstRun = NoFirst

BuilderNext ==
    \E update, writable \in BOOLEAN :
      \E override \in OverrideValues :
        BuilderMain(update, override[1], override[2], writable)

BuilderSpec == BuilderInit /\ [][BuilderNext]_vars

AssemblerInit ==
    /\ caseSensitive \in BOOLEAN
    /\ dirExists \in BOOLEAN
    /\ images \in (IF dirExists
                   THEN InputDirs(caseSensitive, FileUniverse \ {f_b_txt}, {"small", "bad"})
                   ELSE {<< >>})
    /\ docFile \in InputDocs({<<97>>, <<65>>, <<98>>}, {<<800, 600>>}, {1})
    /\ docIsOutput = FALSE
    /\ builderRun = NoRun
    /\ outDir \in {"ok", "missing", "readonly"}
    /\ AsmIdle
    /\ alphaSample = NoSample
    /\ firstRun = NoFirst

AssemblerNext ==
    \/ \E m \in {"imagemagick", "composite"} : \E out \in OutputPaths : MainStart(m, out)
    \/ LayeredLoad
    \/ \E ok \in BOOLEAN : LayeredProbe(ok)
    \/ LayeredBuild
    \/ \E ok \in BOOLEAN : LayeredRun(ok)
    \/ CompositeLoad
    \/ PaintLayer
    \/ CallSave
    \/ \E ok \in BOOLEAN : NativeProbe(ok)
    \/ SaveTemp
    \/ \E ok \in BOOLEAN : NativeConvert(ok)
    \/ Cleanup
    \/ \E outcome \in {"ok", "unavailable", "failed"} : LibraryStep(outcome)
    \/ RasterFallback
    \/ MainFinish

AssemblerSpec == AssemblerInit /\ [][AssemblerNext]_vars

\* two flattened runs, one after the other, on a machine with neither
\* ImageMagick nor psd-tools
RerunInit ==
    /\ AssemblerInit
    /\ outDir = "ok"

RerunNext ==
    \/ MainStart("composite", o_psd)
    \/ CompositeLoad
    \/ PaintLayer
    \/ CallSave
    \/ NativeProbe(FALSE)
    \/ LibraryStep("unavailable")
    \/ RasterFallback
    \/ MainFinish
    \/ RunAgain

RerunSpec == RerunInit /\ [][RerunNext]_vars

\* the Builder catalogs a directory and the Assembler is run on its document
\* and that directory, on a machine where the layered encoder works and the
\* flattened export falls through to the raster fallback
PipelineInit ==
    /\ caseSensitive \in BOOLEAN
    /\ dirExists \in BOOLEAN
    /\ images \in (IF dirExists
                   THEN InputDirs(caseSensitive, FileUniverse, {"small", "bad"})
                   ELSE {<< >>})
    /\ docFile = AbsentDoc
    /\ docIsOutput = FALSE
    /\ builderRun = NoRun
    /\ outDir = "ok"
    /\ AsmIdle
    /\ alphaSample = NoSample
    /\ firstRun = NoFirst

PipelineNext ==
    \/ \E update \in BOOLEAN : BuilderMain(update, NoneArg, NoneArg, TRUE)
    \/ \E m \in {"imagemagick", "composite"} : MainStart(m, o_psd)
    \/ LayeredLoad
    \/ LayeredProbe(TRUE)
    \/ LayeredBuild
    \/ LayeredRun(TRUE)
    \/ CompositeLoad
    \/ PaintLayer
    \/ CallSave
    \/ NativeProbe(FALSE)
    \/ LibraryStep("unavailable")
    \/ RasterFallback
    \/ MainFinish

PipelineSpec == PipelineInit /\ [][PipelineNext]_vars

\* every alpha sample under every opacity of [0, 1] in steps of 1/100
AlphaInit ==
    /\ caseSensitive = TRUE
    /\ dirExists = FALSE
    /\ images = << >>
    /\ docFile = AbsentDoc
    /\ docIsOutput = FALSE
    /\ builderRun = NoRun
    /\ outDir = "ok"
    /\ AsmIdle
    /\ alphaSample \in [source : 0..MaxAlpha, opacity : 0..Percent,
                         applied : {FALSE}, scaled : {0}]
    /\ firstRun = NoFirst

AlphaNext == ScaleAlpha

AlphaSpec == AlphaInit /\ [][AlphaNext]_vars
\* ------------------------------------------------------------- properties
PngFiles == {f \in DOMAIN images : EndsWith(Lower(f), DotPng)}

\* position of a file in filename order, and its name without extension
Rank(f) == Cardinality({g \in PngFiles : StrLess(g, f)}) + 1
StemOf(f) == SubSeq(f, 1, Len(f) - 4)

CreateRun == builderRun.ran /\ ~builderRun.update /\ builderRun.success
UpdateRun == /\ builderRun.ran /\ builderRun.update /\ builderRun.success
             /\ builderRun.loaded.state = "valid"

Matches(f) == {j \in DOMAIN builderRun.loaded.layers :
                 builderRun.loaded.layers[j].name = StemOf(f)}

\* C2: after an update run, the descriptor written for a discovered file
\* whose stem names a descriptor of the loaded document carries the x, y and
\* opacity of a loaded descriptor of that name, whatever the probe returned.
C2_UpdateKeepsSettings ==
    UpdateRun =>
      \A f \in PngFiles :
        Matches(f) # {} =>
          /\ Rank(f) \in DOMAIN docFile.layers
          /\ \E j \in Matches(f) :
                Settings(docFile.layers[Rank(f)]) = Settings(builderRun.loaded.layers[j])

C2_Witness ==
    /\ UpdateRun
    /\ \E f \in PngFiles :
         /\ images[f] = "bad"
         /\ \E j \in Matches(f) :
              Settings(builderRun.loaded.layers[j]) = Edited

Core(doc) ==
    [frame  |-> doc.frame,
     layers |-> [i \in DOMAIN doc.layers |->
                   <<doc.layers[i].name, doc.layers[i].x, doc.layers[i].y,
                     doc.layers[i].opacity>>]]

\* C3: an update run on the Builder's own previous output, with the
\* directory unchanged, writes the same frame and the same layers in the same
\* order with the same x, y and opacity.
C3_UpdateIdempotent ==
    (UpdateRun /\ builderRun.fromOutput) => Core(docFile) = Core(builderRun.loaded)

\* C4: a create run over N >= 1 PNG files writes exactly N descriptors, in
\* filename order, with non-decreasing y.
C4_CreateCatalog ==
    (CreateRun /\ PngFiles # {}) =>
      /\ Len(docFile.layers) = Cardinality(PngFiles)
      /\ \A f \in PngFiles : docFile.layers[Rank(f)].name = StemOf(f)
      /\ \A i, j \in DOMAIN docFile.layers :
            i < j => docFile.layers[i].y <= docFile.layers[j].y

C4_Witness ==
    /\ CreateRun
    /\ Cardinality(PngFiles) = MaxFiles
    /\ builderRun.loaded.state = "valid"
    /\ docFile.layers[Len(docFile.layers)].y > 0

\* C10: a supplied --canvas-width / --canvas-height is the frame of the
\* document the Builder writes.
C10_OverrideWins ==
    (builderRun.ran /\ builderRun.success) =>
      /\ builderRun.canvas_width # NoneArg => docFile.frame[1] = builderRun.canvas_width
      /\ builderRun.canvas_height # NoneArg => docFile.frame[2] = builderRun.canvas_height

\* ---- export chain
Attempted(name) == \E i \in DOMAIN trace : trace[i].step = name
Outcome(name, o) == \E i \in DOMAIN trace : trace[i] = Step(name, o)

Holds(path, format) ==
    /\ path \in DOMAIN fs
    /\ fs[path].format = format
    /\ fs[path].image = composite

HoldsCanvas(path) == path \in DOMAIN fs /\ fs[path].image = composite

\* the output path with its .psd extension replaced by .png
PngFallbackPath(path) ==
    IF EndsWith(path, DotPsd)
    THEN SubSeq(path, 1, Len(path) - Len(DotPsd)) \o DotPng
    ELSE path

\* C1: whenever save_as_psd has returned success, the canvas is in a file at
\* the requested output path or at the PNG fallback path.
C1_SuccessMeansFile ==
    (trace # <<>> /\ result = "true") =>
      HoldsCanvas(output_path) \/ HoldsCanvas(PngFallbackPath(output_path))

\* C5: a document layer whose name differs from the stem of a readable
\* .png file on disk only in letter case is resolved and painted, not skipped.
C5_CaseInsensitiveResolve ==
    \A i \in DOMAIN layer_log :
      (\E f \in DOMAIN images :
          /\ EndsWith(f, DotPng)
          /\ Lower(StemOf(f)) = Lower(loaded_info.layers[i].name)
          /\ images[f] # "bad")
      => layer_log[i] = "added"

StepRank(name) ==
    CASE name = "probe" -> 1 [] name = "temp" -> 2 [] name = "convert" -> 3
      [] name = "library" -> 4 [] name = "raster" -> 5

NativeFailedBefore(i) ==
    \E j \in 1..(i - 1) :
       trace[j].step \in {"probe", "temp", "convert"} /\ trace[j].outcome # "ok"

\* C6: the export steps are attempted in chain order; the library step only
\* after the native step was unavailable or failed, the raster step only
\* after the library step was unavailable or failed too, nothing after a
\* step that succeeded, and no conversion command after a failed version probe.
C6_StrictFallbackOrder ==
    /\ \A i, j \in DOMAIN trace : i < j => StepRank(trace[i].step) < StepRank(trace[j].step)
    /\ \A i \in DOMAIN trace :
         /\ trace[i].step = "library" => NativeFailedBefore(i)
         /\ trace[i].step = "raster" =>
               /\ NativeFailedBefore(i)
               /\ \E j \in 1..(i - 1) :
                     trace[j].step = "library" /\ trace[j].outcome # "ok"
         /\ (trace[i].step \in {"convert", "library", "raster"} /\ trace[i].outcome = "ok")
               => i = Len(trace)
    /\ Outcome("probe", "unavailable") => ~Attempted("temp") /\ ~Attempted("convert")

C6_Witness ==
    /\ Outcome("probe", "ok")
    /\ Outcome("convert", "failed")
    /\ Outcome("library", "failed")
    /\ Outcome("raster", "ok")

ChainOver == pc \in {"return", "exited"}

\* C7: with the native tool and the library both unavailable (and the output
\* location writable), the chain ends with the canvas saved as a PNG at the
\* output path with .psd replaced by .png, and returns success.
C7_RasterFallback ==
    (/\ ChainOver
     /\ Outcome("probe", "unavailable")
     /\ Outcome("library", "unavailable")
     /\ outDir = "ok") =>
      /\ result = "true"
      /\ Holds(PngFallbackPath(output_path), "png")

\* ---- paint loop
\* the file system has an entry for this name
OnDisk(name) ==
    \E f \in DOMAIN images :
       IF caseSensitive THEN f = name ELSE Lower(f) = Lower(name)

EntryFor(name) ==
    CHOOSE f \in DOMAIN images :
       IF caseSensitive THEN f = name ELSE Lower(f) = Lower(name)

Resolvable(layer) ==
    dirExists /\ (OnDisk(layer.name \o DotPng) \/ OnDisk(Lower(layer.name) \o DotPng))

FileFor(layer) ==
    IF OnDisk(layer.name \o DotPng) THEN EntryFor(layer.name \o DotPng)
    ELSE EntryFor(Lower(layer.name) \o DotPng)

Paintable(layer) == Resolvable(layer) /\ images[FileFor(layer)] # "bad"

\* the paintable layers among the first n, in document order
RECURSIVE ExpectedPainted(_, _)
ExpectedPainted(layers, n) ==
    IF n = 0 THEN <<>>
    ELSE IF Paintable(layers[n])
         THEN Append(ExpectedPainted(layers, n - 1),
                     <<FileFor(layers[n]), layers[n].x, layers[n].y, layers[n].opacity>>)
         ELSE ExpectedPainted(layers, n - 1)

PaintedSoFar ==
    [i \in DOMAIN composite.painted |->
       <<composite.painted[i].file, composite.painted[i].x,
         composite.painted[i].y, composite.painted[i].opacity>>]

\* save_as_psd is running or has ended
ExportPcs == {"probe", "temp", "convert", "cleanup", "library", "raster",
              "return", "exited"}

InFlattenedPath == idx >= 1

\* C8: in the flattened path a layer that cannot be resolved or loaded is
\* skipped: the canvas holds exactly the other layers seen so far, in document
\* order, the function never returns failure because of a layer, and once the
\* loop is over the canvas goes to the export chain.
C8_BadLayerSkipped ==
    InFlattenedPath =>
      /\ PaintedSoFar = ExpectedPainted(loaded_info.layers, idx - 1)
      /\ Len(layer_log) = idx - 1
      /\ result # "false"
      /\ pc # "paint" => (idx = Len(loaded_info.layers) + 1 /\ pc \in ExportPcs)

C8_Witness ==
    /\ InFlattenedPath
    /\ layer_log \in {<<"missing", "added">>, <<"error", "added">>}
    /\ Len(composite.painted) = 1
    /\ pc = "probe"

\* C9: both command lines exit non-zero on an unrecoverable failure (missing
\* layer directory, missing document for the Assembler, output not written)
\* and exit zero otherwise.
C9_ExitStatus ==
    /\ builderRun.ran =>
         IF ~dirExists \/ (PngFiles # {} /\ ~builderRun.writable)
         THEN builderRun.exit # 0
         ELSE builderRun.success => builderRun.exit = 0
    /\ pc = "exited" =>
         IF ~dirExists \/ docFile.state = "absent" \/ result = "raised"
         THEN exit # 0
         ELSE result = "true" => exit = 0

\* ---- update mode: order of the descriptors
OutLayers == docFile.layers
LoadedNames == {builderRun.loaded.layers[j].name : j \in DOMAIN builderRun.loaded.layers}

\* a descriptor of the output was carried over / was synthesized in this run
CarriedOver(i) == OutLayers[i].name \in LoadedNames
Synthesized(i) == ~CarriedOver(i)

\* where the existing document holds a name (its last descriptor of that name)
LoadedPos(name) ==
    CHOOSE j \in DOMAIN builderRun.loaded.layers :
       /\ builderRun.loaded.layers[j].name = name
       /\ \A k \in DOMAIN builderRun.loaded.layers :
             builderRun.loaded.layers[k].name = name => k <= j

\* C11: after an update run every synthesized descriptor comes after all
\* carried-over ones, the synthesized ones are in filename order, and the
\* carried-over ones keep the order they had in the existing document.
C11_NewLayersAppended ==
    UpdateRun =>
      \A i, j \in DOMAIN OutLayers :
        /\ (CarriedOver(i) /\ Synthesized(j)) => i < j
        /\ (Synthesized(i) /\ Synthesized(j) /\ i < j) =>
              ~StrLess(OutLayers[j].name, OutLayers[i].name)
        /\ (CarriedOver(i) /\ CarriedOver(j) /\ i < j) =>
              LoadedPos(OutLayers[i].name) <= LoadedPos(OutLayers[j].name)

\* ---- the stacking heuristic
\* names this run merged from: the loaded document's, when it was usable
MergeNames == IF builderRun.update /\ builderRun.loaded.state = "valid"
              THEN LoadedNames ELSE {}

Fresh(f) == StemOf(f) \notin MergeNames

\* height the probe reports: 0 when the image cannot be opened
ProbedHeight(f) == IF images[f] = "bad" THEN 0 ELSE ImageHeight(images[f])
ProbedWidth(f)  == IF images[f] = "bad" THEN 0 ELSE ImageWidth(images[f])

Advance(f) == IF ProbedHeight(f) \div 4 > 50 THEN ProbedHeight(f) \div 4 ELSE 50

RECURSIVE SumAdvance(_)
SumAdvance(S) == IF S = {} THEN 0
                 ELSE LET f == CHOOSE g \in S : TRUE
                      IN  Advance(f) + SumAdvance(S \ {f})

\* C12: a synthesized descriptor has x = 0, opacity 1.0 and y = the sum of
\* max(50, height / 4) over the synthesized descriptors before it; merged
\* descriptors add nothing to the offset.
C12_StackingOffset ==
    builderRun.success =>
      \A f \in PngFiles :
        Fresh(f) =>
          /\ OutLayers[Rank(f)].x = 0
          /\ OutLayers[Rank(f)].opacity = 100
          /\ OutLayers[Rank(f)].y =
                SumAdvance({g \in PngFiles : Rank(g) < Rank(f) /\ Fresh(g)})

\* a merged descriptor is followed by a synthesized one, which starts at 0,
\* or a synthesized one follows a synthesized tall image
C12_Witness ==
    /\ UpdateRun
    /\ \E f, g \in PngFiles :
         /\ ~Fresh(f) /\ Fresh(g) /\ Rank(f) < Rank(g)
         /\ images[f] = "big"
         /\ OutLayers[Rank(g)].y = 0

\* ---- the frame of the output document
NoOverride == builderRun.canvas_width = NoneArg /\ builderRun.canvas_height = NoneArg

\* C13: with no existing document loaded and no override, the frame is
\* (max(800, largest probed width), max(600, largest probed height)); a file
\* whose probe failed counts as 0 x 0.
C13_InferredFrame ==
    (builderRun.success /\ ~UpdateRun /\ NoOverride) =>
      /\ docFile.frame[1] >= 800 /\ docFile.frame[2] >= 600
      /\ \A f \in PngFiles : /\ docFile.frame[1] >= ProbedWidth(f)
                              /\ docFile.frame[2] >= ProbedHeight(f)
      /\ docFile.frame[1] \in {800} \cup {ProbedWidth(f) : f \in PngFiles}
      /\ docFile.frame[2] \in {600} \cup {ProbedHeight(f) : f \in PngFiles}

\* small and unreadable images only: the floor decides the frame
C13_Witness ==
    /\ builderRun.success /\ ~UpdateRun /\ NoOverride
    /\ \E f, g \in PngFiles : images[f] = "bad" /\ images[g] = "small"
    /\ docFile.frame = <<800, 600>>

\* C14: an update run over a loadable document keeps that document's frame,
\* whatever the sizes of the images in the directory.
C14_FramePreserved ==
    UpdateRun => docFile.frame = builderRun.loaded.frame

\* the kept frame is smaller than an image now in the directory
C14_Witness ==
    /\ UpdateRun
    /\ docFile.frame = <<640, 480>>
    /\ \E f \in PngFiles : ProbedWidth(f) > 640 /\ ProbedHeight(f) > 480

\* ---- the names of the output document
OutNames == {OutLayers[i].name : i \in DOMAIN OutLayers}

\* C15: a written document names exactly the stems of the raster files
\* found in the directory; descriptors whose file is gone are dropped.
C15_NamesAreStems ==
    builderRun.success => OutNames = {StemOf(f) : f \in PngFiles}

\* the loaded document had a descriptor whose file is no longer there
C15_Witness ==
    /\ UpdateRun
    /\ \E n \in LoadedNames : n \notin OutNames
    /\ \E n \in LoadedNames : n \in OutNames

\* C16: layer names are unique within every document the Builder writes.
C16_UniqueNames ==
    builderRun.success =>
      \A i, j \in DOMAIN OutLayers : OutLayers[i].name = OutLayers[j].name => i = j

\* ---- failures inside a Builder run
\* C19: a probe failure does not stop the run: the unreadable file gets a
\* descriptor with derived width 0 and height 0, and every other discovered
\* file is cataloged with its own size.
C19_ProbeFailureTolerated ==
    (builderRun.ran /\ builderRun.writable /\ PngFiles # {}) =>
      /\ builderRun.success
      /\ Len(OutLayers) = Cardinality(PngFiles)
      /\ \A f \in PngFiles :
            /\ OutLayers[Rank(f)].name = StemOf(f)
            /\ OutLayers[Rank(f)].image_width = ProbedWidth(f)
            /\ OutLayers[Rank(f)].image_height = ProbedHeight(f)
            /\ images[f] = "bad" => /\ OutLayers[Rank(f)].image_width = 0
                                    /\ OutLayers[Rank(f)].image_height = 0

\* an unreadable file sorted before a readable one, both cataloged
C19_Witness ==
    /\ builderRun.success
    /\ \E f, g \in PngFiles :
         /\ images[f] = "bad" /\ images[g] = "big" /\ Rank(f) < Rank(g)
         /\ OutLayers[Rank(f)].image_width = 0
         /\ OutLayers[Rank(g)].image_width = 1000

\* C20: an update run over a document with invalid syntax fails and leaves
\* the document file as it was.
C20_InvalidDocumentFatal ==
    (builderRun.ran /\ builderRun.update /\ builderRun.loaded.state = "invalid") =>
      /\ ~builderRun.success
      /\ docFile = builderRun.loaded

\* ---- the layered-export command line
\* the command line has been built
CmdBuilt == pc = "layered_run" \/ cmd # << >>

Reverse(s) == [i \in 1..Len(s) |-> s[Len(s) + 1 - i]]

\* the arguments one resolvable layer contributes
ExpectedGroup(layer) ==
    <<[arg |-> "file", file |-> FileFor(layer), x |-> 0, y |-> 0, value |-> 0],
      [arg |-> "-geometry", file |-> << >>, x |-> 0, y |-> 0, value |-> 0],
      [arg |-> "+x+y", file |-> << >>, x |-> layer.x, y |-> layer.y, value |-> 0]>>
    \o (IF layer.opacity < 100
        THEN [i \in 1..7 |->
                [arg   |-> <<"-alpha", "set", "-channel", "A", "-evaluate",
                             "multiply", "opacity/100">>[i],
                 file  |-> << >>, x |-> 0, y |-> 0,
                 value |-> IF i = 7 THEN layer.opacity ELSE 0]]
        ELSE << >>)
    \o <<[arg |-> "-composite", file |-> << >>, x |-> 0, y |-> 0, value |-> 0]>>

RECURSIVE Flatten(_)
Flatten(groups) == IF groups = << >> THEN << >>
                   ELSE Head(groups) \o Flatten(Tail(groups))

ExpectedCmd(layers) ==
    LET kept == Reverse(SelectSeq(layers, Resolvable))
    IN  Flatten([i \in 1..Len(kept) |-> ExpectedGroup(kept[i])])

\* C17: the layered-export command line names the resolvable layers in the
\* reverse of document order, each followed by its own geometry (and opacity)
\* arguments and a composite argument; unresolved layers are left out.
C17_ReversedCommandLine ==
    CmdBuilt => cmd = ExpectedCmd(loaded_info.layers)

\* two resolvable layers with different files, the first one translucent
C17_Witness ==
    /\ pc = "layered_run"
    /\ Len(loaded_info.layers) = 2
    /\ Resolvable(loaded_info.layers[1]) /\ Resolvable(loaded_info.layers[2])
    /\ FileFor(loaded_info.layers[1]) # FileFor(loaded_info.layers[2])
    /\ loaded_info.layers[1].opacity < 100
    /\ cmd[1].file = FileFor(loaded_info.layers[2])

\* ---- the opacity applied to the alpha channel
\* what apply_opacity gives for this sample under another opacity
ScaledUnder(o) == apply_opacity(alphaSample.source, o)

\* C18: the applied alpha lies in 0..255 and never decreases when the opacity
\* grows; opacity 1.0 leaves the sample unchanged, a smaller opacity gives
\* the truncation of sample * opacity.
C18_AlphaScaling ==
    alphaSample.applied =>
      LET a == alphaSample.source
          o == alphaSample.opacity
          r == alphaSample.scaled
      IN  /\ r \in 0..MaxAlpha
          /\ o = Percent => r = a
          /\ o < Percent => (r * Percent <= a * o /\ a * o < (r + 1) * Percent)
          /\ \A o2 \in 0..Percent : o < o2 => r <= ScaledUnder(o2)
          /\ \A o1 \in 0..Percent : o1 < o => ScaledUnder(o1) <= r

\* a sample that truncation rounds down: 255 at opacity 0.5 becomes 127
C18_Witness ==
    /\ alphaSample.applied
    /\ alphaSample.source = MaxAlpha
    /\ alphaSample.opacity = 50
    /\ alphaSample.scaled = 127

\* ---- a document that cannot be loaded
\* an Assembler function has been entered
Entered == pc \notin {"idle"} /\ ~(pc = "exited" /\ reads = 0)

\* C21: with the document missing or not valid JSON, either entry point
\* returns failure: no layer is painted, no external tool is run and no file
\* is written at the requested path or at the PNG fallback path.
C21_UnloadableDocumentFails ==
    (pc # "idle" /\ docFile.state # "valid") =>
      /\ pc \in {"layered_load", "composite_load", "return", "exited"}
      /\ composite = NoCanvas /\ layer_log = << >>
      /\ cmd = << >> /\ trace = << >>
      /\ fs = << >>
      /\ result \in {"none", "false"}
      /\ (Entered /\ pc \in {"return", "exited"}) => result = "false"

\* the layered entry point has returned failure on an invalid document
C21_Witness ==
    /\ docFile.state = "invalid"
    /\ method = "imagemagick"
    /\ pc = "return"
    /\ reads = 1
    /\ result = "false"

\* ---- reads of the document file
\* C22: an Assembler invocation that reaches a method reads the document
\* file exactly once, also when the layered method falls back to the
\* flattened one.
C22_DocumentReadOnce ==
    /\ reads <= 1
    /\ result \in {"true", "false", "raised"} => reads = 1

ResolvableLayers == SelectSeq(loaded_info.layers, Resolvable)

IsFileArg(a) == a.arg = "file"

\* bottom-to-top order of the images in the encoder's result: each
\* '-composite' lays the image named before it over what was composed so far
LayeredStack ==
    LET files == SelectSeq(cmd, IsFileArg)
    IN  [i \in 1..Len(files) |-> files[i].file]

\* bottom-to-top order of the images on the flattened canvas: every paste
\* goes over the earlier ones
FlattenedStack == [i \in 1..Len(composite.painted) |-> composite.painted[i].file]

BottomIsFirstTopIsLast(stack) ==
    /\ Len(stack) >= 1
    /\ stack[1] = FileFor(ResolvableLayers[1])
    /\ stack[Len(stack)] = FileFor(ResolvableLayers[Len(ResolvableLayers)])

\* C24: both methods stack alike: the document's first resolvable layer is
\* the bottommost above the background and its last resolvable layer is the
\* topmost, in the layered command line and on the flattened canvas.
C24_SameStacking ==
    /\ (CmdBuilt /\ ResolvableLayers # << >>) => BottomIsFirstTopIsLast(LayeredStack)
    /\ (InFlattenedPath /\ pc \in ExportPcs /\ ResolvableLayers # << >>
          /\ \A i \in DOMAIN ResolvableLayers : Paintable(ResolvableLayers[i]))
         => BottomIsFirstTopIsLast(FlattenedStack)

\* ---- the Builder's document in the Assembler
\* the Assembler has loaded the document the Builder wrote for this directory
LoadedBuilderOutput == docIsOutput /\ loaded_info = docFile

\* C25: no layer of a Builder-written document is skipped as not found when
\* the Assembler runs on that document and the same directory: the paint loop
\* logs no missing file and the layered command line names every layer.
C25_CatalogedLayersResolve ==
    LoadedBuilderOutput =>
      /\ \A i \in DOMAIN layer_log : layer_log[i] # "missing"
      /\ CmdBuilt => Len(LayeredStack) = Len(loaded_info.layers)

\* ---- nothing to catalog
NothingToCatalog == ~dirExists \/ PngFiles = {}

\* C26: with the directory missing or holding no raster file the Builder
\* fails before it loads or writes anything: no document is created and an
\* existing one is left as it was.
C26_EmptyScanFails ==
    (builderRun.ran /\ NothingToCatalog) =>
      /\ ~builderRun.success
      /\ ~builderRun.opened
      /\ docFile = builderRun.loaded
      /\ ~docIsOutput

\* an update run with a writable output over an existing document, in a
\* directory that holds only a file that is not a raster image
C26_Witness ==
    /\ builderRun.ran /\ builderRun.update /\ builderRun.writable
    /\ dirExists /\ DOMAIN images = {f_b_txt}
    /\ docFile.state = "valid" /\ Len(docFile.layers) = 2

\* ---- the temporary PNG of the native-tool step
SaveReturned == pc \in {"return", "exited"} /\ result = "true" /\ trace # << >>

\* the native-tool step has written its temporary PNG
TempCreated == \E i \in DOMAIN trace : trace[i] = Step("temp", "ok")

\* C27: when save_as_psd has returned, the temporary PNG the native-tool
\* step created is gone, whichever step completed the export.
C27_TempRemoved ==
    (SaveReturned /\ TempCreated) => temp_png \notin DOMAIN fs
====
